---- MODULE Spec2Model ----
(***************************************************************************)
(* A model of run_metroman.py: retrieve_obs (time alignment, aggregation,  *)
(* validity filter, quality classification), main's dispatch on the        *)
(* quality tier, process' choice of estimation path and write_output's     *)
(* re-expansion of the estimates onto the pre-filter time axis.            *)
(*                                                                         *)
(* Conventions.  Python lists and numpy vectors are sequences; a numpy     *)
(* index j (0-based) addresses element j + 1 of the sequence, and iDelete, *)
(* iInsert hold the 0-based indices of the code.  A reach is identified by *)
(* its position in reachlist (the reach_id values of a set are distinct).  *)
(* The time list ts of a reach is the list of line 120: hours, NaN where   *)
(* the file's value is masked.  The external estimator's numbers are       *)
(* opaque: an estimated column is tagged by the filtered column it was     *)
(* computed from.                                                          *)
(***************************************************************************)
EXTENDS Integers, Sequences, FiniteSets, TLC

\* ------------------------------------------------------------ bounds
\* longest raw time list of a reach in the alignment family
MaxLen == 3
\* instants 1..NumInstants occur in the alignment family
NumInstants == 2
\* undefined readings in the files of a reach-set of the pipeline family
MaxBad == 1
\* longest pre-filter time axis handed to write_output in the assembler family
MaxNt == 5
\* estimate values 1..MaxVal occur in the assembler family
MaxVal == 2
\* reach-sets of the filter family hold 1..MaxFilterReaches reaches
MaxFilterReaches == 2
\* undefined readings in the aligned matrices of the filter family
MaxFilterBad == 2

\* ------------------------------------------------- program constants
\* np.nan: the value of a masked time, reading or prior
NaN == -1
\* ntmin, ntmin_prior, nRmin of retrieve_obs
ntmin_prior == 4
ntmin == 4
nRmin == 3
\* reach-sets below the reach threshold hold 1..MaxAlignReaches reaches
MaxAlignReaches == nRmin - 1
\* fillvalue of write_output and main (-999999999999 in the source; nine
\* digits here, the value is only ever copied and compared)
fillvalue == -999999999

\* ------------------------------------------------------------ helpers
IsNaN(x) == x = NaN

\* Python's  t in lst  on floats: equality, which NaN never satisfies
InList(t, lst) == ~IsNaN(t) /\ \E k \in 1..Len(lst) : lst[k] = t

SetOf(lst) == {lst[k] : k \in 1..Len(lst)}

Min(S) == CHOOSE x \in S : \A y \in S : x <= y

RECURSIVE SetToSeq(_)
\* the elements of a set in ascending order: the index list of np.where, a
\* sorted list of distinct values
SetToSeq(S) == IF S = {} THEN <<>> ELSE <<Min(S)>> \o SetToSeq(S \ {Min(S)})

RECURSIVE InsertSorted(_, _)
InsertSorted(x, lst) ==
    IF lst = <<>> THEN <<x>>
    ELSE IF x <= Head(lst) THEN <<x>> \o lst
    ELSE <<Head(lst)>> \o InsertSorted(x, Tail(lst))

RECURSIVE SortList(_)
\* list.sort(): ascending, repeated values kept
SortList(lst) == IF lst = <<>> THEN <<>> ELSE InsertSorted(Head(lst), SortList(Tail(lst)))

RECURSIVE SumBool(_)
\* sum() of a boolean mask
SumBool(mask) == IF mask = <<>> THEN 0 ELSE (IF Head(mask) THEN 1 ELSE 0) + SumBool(Tail(mask))

RECURSIVE MaskSelect(_, _)
\* numpy boolean indexing a[mask]
MaskSelect(a, mask) ==
    IF a = <<>> THEN <<>>
    ELSE (IF Head(mask) THEN <<Head(a)>> ELSE <<>>) \o MaskSelect(Tail(a), Tail(mask))

\* all sequences over S of length 0..n
SeqsUpTo(S, n) == UNION {[1..m -> S] : m \in 0..n}

\* ------------------------------------------------------------- state
VARIABLES
    pc,          \* the statement the run is at
    reachlist,   \* the reach-set: per reach, whether its swot file exists and its time list
    files,       \* per reach read so far: its wse, width, slope2 series and its mean_q
    allts,       \* dict allts: reach -> time list, of the reaches whose file exists
    overlap_fs,  \* dict overlap_fs: reach -> selection mask over its raw time list
    overlap_ts,  \* list overlap_ts
    DAll,        \* Domain: nR, nt
    AllObs,      \* Observations: h, w, S, one row per reach
    talli,       \* elapsed time of each aligned instant since the first
    Qbar,        \* the priors read so far
    SetQuality,  \* the quality tier, Unassigned before line 203
    iDelete,     \* the deletion ledger (0-based column indices)
    nDelete,
    i,           \* the read loop's reach counter
    reads,       \* reach-channel, prior and reach-length reads attempted
    Estimate,    \* the estimates: per-time-step series and per-reach scalars
    P,           \* the prior's per-reach means
    calls,       \* the estimator paths run, in order
    dataset      \* the output record written

vars == <<pc, reachlist, files, allts, overlap_fs, overlap_ts, DAll, AllObs, talli,
          Qbar, SetQuality, iDelete, nDelete, i, reads, Estimate, P, calls, dataset>>

Unassigned == 0 - 1
NoEstimate == [AllQ |-> <<>>, QhatUnc_HatAllAll |-> <<>>, QhatAllPrior |-> <<>>,
               A0hat |-> <<>>, nahat |-> <<>>, x1hat |-> <<>>]
NoPrior == [meanA0 |-> <<>>, meanna |-> <<>>, meanx1 |-> <<>>]
NoDataset == [written |-> FALSE]
NoReads == [channel |-> 0, prior |-> 0, sword |-> 0]

\* ---------------------------------------------------- time alignment
\* treach: the defined entries of a raw time list (lines 132, 137)
Treach(ts) == SelectSeq(ts, LAMBDA t : ~IsNaN(t))

RECURSIVE ListsOfSet(_)
\* list(set): the elements once each, in an order the language leaves open
\* (the hash order of the build); every order is a possible outcome
ListsOfSet(S) ==
    IF S = {} THEN {<<>>}
    ELSE UNION {{<<x>> \o lst : lst \in ListsOfSet(S \ {x})} : x \in S}

\* line 138 with the intersection replaced by a union
IntersectTimes_Union(overlap, treach) == overlap \cup SetOf(treach)

\* line 138: set(overlap_ts).intersection(set(treach)), for overlap = set(overlap_ts)
IntersectTimes(overlap, treach) == overlap \cap SetOf(treach)

RECURSIVE OverlapSet(_, _)
\* lines 130-146: the instants overlap_ts holds after reach k.  From the second
\* reach on the list is only ever turned into a set again (line 138) or
\* searched (line 142), so the loop is followed on the sets
OverlapSet(tslist, k) ==
    IF k = 1 THEN SetOf(Treach(tslist[1]))
    ELSE IntersectTimes(OverlapSet(tslist, k - 1), Treach(tslist[k]))

\* lines 130-146, the lists the loop may leave in overlap_ts: the first
\* reach's treach as it stands when it is the only reach, a list of the
\* last intersection otherwise
OverlapLoop(tslist) ==
    IF Len(tslist) = 1 THEN {Treach(tslist[1])}
    ELSE ListsOfSet(OverlapSet(tslist, Len(tslist)))

\* lines 135, 140-144: the mask the first loop leaves (rewritten by lines 150-160)
FirstMask(k, ts, overlap) ==
    [ii \in 1..Len(ts) |-> IF k = 1 THEN TRUE ELSE InList(ts[ii], overlap)]

\* lines 153-157 without the duplicate test of lines 159-160
FixMask_NoDuplicateTest(ts, overlap) ==
    [ii \in 1..Len(ts) |-> InList(ts[ii], overlap)]

\* lines 150-160: selected iff in overlap_ts and not a repeat of an earlier entry
FixMask(ts, overlap) ==
    [ii \in 1..Len(ts) |-> InList(ts[ii], overlap) /\ ~InList(ts[ii], SubSeq(ts, 1, ii - 1))]

\* the overlap_ts and nt of lines 128-163 for a list of raw time lists: the
\* sort of line 162 gives the same list whatever order the loop left
AlignedTimes(tslist) ==
    IF Len(tslist) = 1 THEN SortList(Treach(tslist[1]))
    ELSE SetToSeq(OverlapSet(tslist, Len(tslist)))

\* ------------------------------------------------------------ inputs
Instants == 1..NumInstants

\* the raw time lists of the alignment family: any order, repeats and gaps
RawSeqs == SeqsUpTo(Instants \cup {NaN}, MaxLen)

\* a reach of the set: a present swot file with its time list, or an absent one
ReachInputs(seqs) ==
    {[exists |-> TRUE, ts |-> ts] : ts \in seqs} \cup {[exists |-> FALSE, ts |-> <<>>]}

ReachSets(seqs, maxR) == UNION {[1..n -> ReachInputs(seqs)] : n \in 1..maxR}

nR == Len(reachlist)

\* the state at the entry of retrieve_obs for the reach-set rl
Entry(rl) ==
    /\ pc = "extract"
    /\ reachlist = rl
    /\ files = <<>>
    /\ allts = <<>>
    /\ overlap_fs = <<>>
    /\ overlap_ts = <<>>
    /\ DAll = [nR |-> 0, nt |-> 0, dt |-> <<>>]
    /\ AllObs = [h |-> <<>>, w |-> <<>>, S |-> <<>>]
    /\ talli = <<>>
    /\ Qbar = <<>>
    /\ SetQuality = Unassigned
    /\ iDelete = <<>>
    /\ nDelete = 0
    /\ i = 0
    /\ reads = NoReads
    /\ Estimate = NoEstimate
    /\ P = NoPrior
    /\ calls = <<>>
    /\ dataset = NoDataset

\* the alignment family: sets of 1..MaxAlignReaches reaches with any raw lists,
\* and sets of nRmin reaches with lists of at most two entries
InitAlign ==
    \E rl \in ReachSets(RawSeqs, MaxAlignReaches)
              \cup [1..nRmin -> ReachInputs(SeqsUpTo(Instants \cup {NaN}, 2))] : Entry(rl)

\* --------------------------------------------- retrieve_obs, step -1
\* lines 113-124: the time list of every reach whose swot file exists
ExtractTimes ==
    /\ pc = "extract"
    /\ allts' = [k \in {k \in 1..nR : reachlist[k].exists} |-> reachlist[k].ts]
    /\ pc' = "overlap"
    /\ UNCHANGED <<reachlist, files, overlap_fs, overlap_ts, DAll, AllObs, talli, Qbar,
                   SetQuality, iDelete, nDelete, i, reads, Estimate, P, calls, dataset>>

\* the raw time lists of reaches 1..k
TsUpTo(k) == [m \in 1..k |-> allts[m]]

\* the overlap_ts reach k's mask is built from at lines 141-144, in one of
\* its orders (the mask only searches it)
OverlapAfter(k) == IF k = 1 THEN Treach(allts[1]) ELSE SetToSeq(OverlapSet(TsUpTo(k), k))

\* lines 128-146 when every reach has an entry in allts
DetermineOverlap ==
    /\ pc = "overlap"
    /\ \A k \in 1..nR : k \in DOMAIN allts
    /\ \E o \in OverlapLoop(TsUpTo(nR)) : overlap_ts' = o
    /\ overlap_fs' = [k \in 1..nR |-> FirstMask(k, allts[k], OverlapAfter(k))]
    /\ pc' = "fix"
    /\ UNCHANGED <<reachlist, files, allts, DAll, AllObs, talli, Qbar,
                   SetQuality, iDelete, nDelete, i, reads, Estimate, P, calls, dataset>>

\* lines 132, 137: allts[reach['reach_id']] of a reach whose file is absent
\* raises KeyError, which nothing catches: the run ends without output
MissingFileKeyError ==
    /\ pc = "overlap"
    /\ \E k \in 1..nR : k \notin DOMAIN allts
    /\ pc' = "aborted"
    /\ UNCHANGED <<reachlist, files, allts, overlap_fs, overlap_ts, DAll, AllObs, talli, Qbar,
                   SetQuality, iDelete, nDelete, i, reads, Estimate, P, calls, dataset>>

\* lines 149-163: the final masks, then overlap_ts.sort()
FixMasks ==
    /\ pc = "fix"
    /\ overlap_fs' = [k \in 1..nR |-> FixMask(allts[k], overlap_ts)]
    /\ overlap_ts' = SortList(overlap_ts)
    /\ pc' = "domain"
    /\ UNCHANGED <<reachlist, files, allts, DAll, AllObs, talli, Qbar,
                   SetQuality, iDelete, nDelete, i, reads, Estimate, P, calls, dataset>>

\* lines 203-206: the initial tier
InitialTier(nr) == IF nr < nRmin THEN 1 ELSE 0

\* lines 180-187: elapsed time since the first aligned instant (in hours; the
\* code divides by 24)
Talli(ts) == [k \in 1..Len(ts) |-> ts[k] - ts[1]]

\* lines 163-206: nt, the domain, the time axis, the empty observation and
\* prior arrays (rows are added as they are read) and the initial tier
SetUpDomain ==
    /\ pc = "domain"
    /\ DAll' = [nR |-> nR, nt |-> Len(overlap_ts), dt |-> <<>>]
    /\ talli' = Talli(overlap_ts)
    /\ AllObs' = [h |-> <<>>, w |-> <<>>, S |-> <<>>]
    /\ Qbar' = <<>>
    /\ SetQuality' = InitialTier(nR)
    /\ pc' = "check"
    /\ UNCHANGED <<reachlist, files, allts, overlap_fs, overlap_ts,
                   iDelete, nDelete, i, reads, Estimate, P, calls, dataset>>

\* ------------------------------------------- retrieve_obs, steps 1-2
\* line 209 with the time list one entry shorter than ntmin_prior allowed
TooFewTimes_OffByOne(nt) == nt < ntmin_prior - 1

\* line 209: too few aligned times to go on
TooFewTimes(nt) == nt < ntmin_prior

\* lines 208-217: the pre-filter checkpoint; iDelete = 0 with nDelete = 0 is
\* the empty ledger
PreFilterCheckpoint ==
    /\ pc = "check"
    /\ IF TooFewTimes(DAll.nt)
       THEN /\ SetQuality' = 2
            /\ iDelete' = <<>>
            /\ nDelete' = 0
            /\ pc' = "returned"
            /\ i' = i
       ELSE /\ pc' = "read"
            /\ i' = 1
            /\ UNCHANGED <<SetQuality, iDelete, nDelete>>
    /\ UNCHANGED <<reachlist, files, allts, overlap_fs, overlap_ts, DAll, AllObs, talli,
                   Qbar, reads, Estimate, P, calls, dataset>>

\* lines 232-251: the consistency guard fires for reach i; np.delete(overlap_ts, 0)
\* drops the first aligned instant from the list returned
ConsistencyGuard ==
    /\ pc = "read"
    /\ SumBool(overlap_fs[i]) # DAll.nt
    /\ SetQuality' = 2
    /\ iDelete' = <<>>
    /\ nDelete' = 0
    /\ overlap_ts' = Tail(overlap_ts)
    /\ pc' = "returned"
    /\ UNCHANGED <<reachlist, files, allts, overlap_fs, DAll, AllObs, talli,
                   Qbar, i, reads, Estimate, P, calls>>
    /\ UNCHANGED dataset

\* the channels of a swot file and the tag of a defined reading at raw position p
Channels == {1, 2, 3}
Reading(c, p) == 10 * c + p

\* channel c of a swot file
ChannelOf(f, c) == CASE c = 1 -> f.wse [] c = 2 -> f.width [] OTHER -> f.slope2

\* the number of undefined readings in the files read so far
NaNCount(fs) ==
    Cardinality(UNION {{<<k, c, p>> : <<c, p>> \in
                          {cp \in Channels \X (1..Len(fs[k].wse)) :
                              IsNaN(ChannelOf(fs[k], cp[1])[cp[2]])}} : k \in 1..Len(fs)})

\* a swot file's series over n raw positions with the readings in bad undefined
Series(c, n, bad) == [p \in 1..n |-> IF <<c, p>> \in bad THEN NaN ELSE Reading(c, p)]

\* line 272 without the assignment of line 275
PriorGuard_Ignored(q, tier) == tier

\* lines 272-275: an undefined prior makes the set invalid
PriorGuard(q, tier) == IF IsNaN(q) THEN 2 ELSE tier

\* lines 253-291: reach i passes the guard; its channels are read through its
\* mask, then its prior, then its length and distance (whose values the
\* model leaves out: no stage modelled here reads them)
ReadReachFile(f) ==
    /\ files' = Append(files, f)
    /\ AllObs' = [h |-> Append(AllObs.h, MaskSelect(f.wse, overlap_fs[i])),
                  w |-> Append(AllObs.w, MaskSelect(f.width, overlap_fs[i])),
                  S |-> Append(AllObs.S, MaskSelect(f.slope2, overlap_fs[i]))]
    /\ Qbar' = Append(Qbar, f.mean_q)
    /\ SetQuality' = PriorGuard(f.mean_q, SetQuality)
    /\ reads' = [channel |-> reads.channel + 3, prior |-> reads.prior + 1,
                 sword |-> reads.sword + 1]
    /\ i' = i + 1
    /\ pc' = IF i = DAll.nR THEN "filter" ELSE "read"
    /\ UNCHANGED <<reachlist, allts, overlap_fs, overlap_ts, DAll, talli,
                   iDelete, nDelete, Estimate, P, calls, dataset>>

\* the contents reach k's files may have: every reading defined but for at
\* most MaxBad undefined readings in the set, at selected positions; the
\* prior defined (tagged 1) or undefined
SubsetsUpTo(S, m) ==
    LET RECURSIVE Upto(_)
        Upto(n) == IF n = 0 THEN {{}}
                   ELSE Upto(n - 1) \cup {B \cup {x} : B \in Upto(n - 1), x \in S}
    IN  Upto(m)

FileContents(k, budget) ==
    LET n == Len(allts[k])
        cells == Channels \X {p \in 1..n : overlap_fs[k][p]}
    IN  {[wse |-> Series(1, n, bad), width |-> Series(2, n, bad),
          slope2 |-> Series(3, n, bad), mean_q |-> q] :
            bad \in SubsetsUpTo(cells, budget), q \in {NaN, 1}}

ReadReach ==
    /\ pc = "read"
    /\ SumBool(overlap_fs[i]) = DAll.nt
    /\ \E f \in FileContents(i, MaxBad - NaNCount(files)) : ReadReachFile(f)

\* line 305 looking at elevation and width only
BadColumns_NoSlope(obs, nt) ==
    SetToSeq({j \in 0..(nt - 1) : \E r \in 1..Len(obs.h) :
                 IsNaN(obs.h[r][j + 1]) \/ IsNaN(obs.w[r][j + 1])})

\* line 305: np.where of the columns with an undefined reading in any reach
\* and any channel, ascending
BadColumns(obs, nt) ==
    SetToSeq({j \in 0..(nt - 1) : \E r \in 1..Len(obs.h) :
                 IsNaN(obs.h[r][j + 1]) \/ IsNaN(obs.w[r][j + 1]) \/ IsNaN(obs.S[r][j + 1])})

\* np.delete(a, idx) on a vector
NpDelete(a, idx) ==
    LET keep == SetToSeq({q \in 1..Len(a) : (q - 1) \notin SetOf(idx)})
    IN  [m \in 1..Len(keep) |-> a[keep[m]]]

\* np.delete(a, idx, 1) on a matrix
NpDeleteCols(a, idx) == [r \in 1..Len(a) |-> NpDelete(a[r], idx)]

\* lines 293-318: the validity filter
ValidityFilter ==
    /\ pc = "filter"
    /\ LET del == BadColumns(AllObs, DAll.nt)
       IN  /\ iDelete' = del
           /\ nDelete' = Len(del)
           /\ AllObs' = [h |-> NpDeleteCols(AllObs.h, del),
                         w |-> NpDeleteCols(AllObs.w, del),
                         S |-> NpDeleteCols(AllObs.S, del)]
           /\ DAll' = [DAll EXCEPT !.nt = DAll.nt - Len(del)]
           /\ talli' = NpDelete(talli, del)
    /\ pc' = "post"
    /\ UNCHANGED <<reachlist, files, allts, overlap_fs, overlap_ts,
                   Qbar, SetQuality, i, reads, Estimate, P, calls, dataset>>

\* lines 330-333 with ntmin one above ntmin_prior
PostFilterTier_GapBetweenThresholds(nt, tier) ==
    IF nt < ntmin_prior + 1 THEN (IF nt < ntmin_prior THEN 2 ELSE 1) ELSE tier

\* lines 328-333: the tier after filtering
PostFilterTier(nt, tier) ==
    IF nt < ntmin THEN (IF nt < ntmin_prior THEN 2 ELSE 1) ELSE tier

\* lines 343-345: seconds between consecutive retained instants (talli is in hours here)
TimeDeltas(t) == [k \in 1..(Len(t) - 1) |-> (t[k + 1] - t[k]) * 3600]

\* lines 328-353: the post-filter checkpoint and the return
PostFilterCheckpoint ==
    /\ pc = "post"
    /\ SetQuality' = PostFilterTier(DAll.nt, SetQuality)
    /\ IF DAll.nt < ntmin
       THEN /\ iDelete' = <<>>
            /\ nDelete' = 0
            /\ DAll' = DAll
       ELSE /\ DAll' = [DAll EXCEPT !.dt = TimeDeltas(talli)]
            /\ UNCHANGED <<iDelete, nDelete>>
    /\ pc' = "returned"
    /\ UNCHANGED <<reachlist, files, allts, overlap_fs, overlap_ts, AllObs, talli,
                   Qbar, i, reads, Estimate, P, calls, dataset>>

\* ---------------------------------------------------------- main
\* a vector of n fill values (np.full)
Full(n, v) == [k \in 1..n |-> v]

\* lines 589-619: an invalid set gets fill-valued estimates and an empty
\* ledger; process is not called.  A per-time-step matrix is modelled by its
\* columns (every row is treated alike), a per-reach vector by its entries
MainInvalid ==
    /\ pc = "returned"
    /\ SetQuality = 2
    /\ LET nt == DAll.nt + nDelete
       IN  /\ Estimate' = [AllQ |-> Full(nt, fillvalue),
                           QhatUnc_HatAllAll |-> Full(nt, fillvalue),
                           QhatAllPrior |-> Full(nt, fillvalue),
                           A0hat |-> Full(DAll.nR, fillvalue),
                           nahat |-> Full(DAll.nR, fillvalue),
                           x1hat |-> Full(DAll.nR, fillvalue)]
           /\ overlap_ts' = Full(nt, fillvalue)
    /\ P' = [meanA0 |-> Full(DAll.nR, fillvalue), meanna |-> Full(DAll.nR, fillvalue),
             meanx1 |-> Full(DAll.nR, fillvalue)]
    /\ nDelete' = 0
    /\ iDelete' = <<>>
    /\ pc' = "write"
    /\ UNCHANGED <<reachlist, files, allts, overlap_fs, DAll, AllObs, talli,
                   Qbar, SetQuality, i, reads, calls, dataset>>

\* lines 408-416 always taking the Metropolis path
ProcessPath_AlwaysMetropolis(tier) == "metropolis"

\* lines 408-416: process returns with the prior only in tier 1 and runs
\* GetCovMats and MetropolisCalculations otherwise
ProcessPath(tier) == IF tier = 1 THEN "prior_only" ELSE "metropolis"

\* the external estimator's results are opaque: a per-time-step estimate is
\* tagged by the filtered column it belongs to, a per-reach scalar by its reach
EstimateOf(path, nr, nt) ==
    [AllQ |-> IF path = "metropolis" THEN [k \in 1..nt |-> k] ELSE <<>>,
     QhatUnc_HatAllAll |-> IF path = "metropolis" THEN [k \in 1..nt |-> k] ELSE <<>>,
     QhatAllPrior |-> IF path = "prior_only" THEN [k \in 1..nt |-> k] ELSE <<>>,
     A0hat |-> [r \in 1..nr |-> r], nahat |-> [r \in 1..nr |-> r],
     x1hat |-> [r \in 1..nr |-> r]]

\* lines 620-629: set_up_experiment and process, which returns an estimate
MainProcess ==
    /\ pc = "returned"
    /\ SetQuality # 2
    /\ calls' = Append(calls, ProcessPath(SetQuality))
    /\ Estimate' = EstimateOf(ProcessPath(SetQuality), DAll.nR, DAll.nt)
    /\ P' = [meanA0 |-> [r \in 1..DAll.nR |-> r], meanna |-> [r \in 1..DAll.nR |-> r],
             meanx1 |-> [r \in 1..DAll.nR |-> r]]
    /\ pc' = "write"
    /\ UNCHANGED <<reachlist, files, allts, overlap_fs, overlap_ts, DAll, AllObs, talli,
                   Qbar, SetQuality, iDelete, nDelete, i, reads, dataset>>

\* line 628: a numerical fault inside process is not caught; the run ends
\* without output
ProcessFault ==
    /\ pc = "returned"
    /\ SetQuality # 2
    /\ calls' = Append(calls, ProcessPath(SetQuality))
    /\ pc' = "aborted"
    /\ UNCHANGED <<reachlist, files, allts, overlap_fs, overlap_ts, DAll, AllObs, talli,
                   Qbar, SetQuality, iDelete, nDelete, i, reads, Estimate, P, dataset>>

\* -------------------------------------------------- write_output
\* line 431 without the shift by np.arange(nDelete)
InsertTargets_NoShift(iDel, nDel) == [j \in 1..nDel |-> iDel[j]]

\* lines 431-432: iInsert = iDelete - np.arange(nDelete)
InsertTargets(iDel, nDel) == [j \in 1..nDel |-> iDel[j] - (j - 1)]

\* np.insert accepts an index of a vector of length n in -n..n
InsertIndexOk(a, idx) == \A m \in 1..Len(idx) : idx[m] >= 0 - Len(a) /\ idx[m] <= Len(a)

\* np.insert(a, idx, v): the indices refer to a as it is before any insertion
\* (negative ones count from the end); the m-th smallest lands at that index
\* plus the number of insertions before it
NpInsert(a, idx, v) ==
    LET n == Len(a)
        srt == SortList([m \in 1..Len(idx) |-> IF idx[m] < 0 THEN idx[m] + n ELSE idx[m]])
        pos == {srt[m] + (m - 1) : m \in 1..Len(srt)}
        before(q) == Cardinality({x \in pos : x < q})
    IN  [q \in 1..(n + Len(idx)) |-> IF (q - 1) \in pos THEN v ELSE a[q - before(q - 1)]]

\* lines 434-438: the series the tier selects are re-expanded
Expanded(est, tier, iInsert) ==
    [est EXCEPT
       !.AllQ = IF tier = 0 THEN NpInsert(@, iInsert, fillvalue) ELSE @,
       !.QhatUnc_HatAllAll = IF tier = 0 THEN NpInsert(@, iInsert, fillvalue) ELSE @,
       !.QhatAllPrior = IF tier = 1 THEN NpInsert(@, iInsert, fillvalue) ELSE @]

\* the series np.insert is applied to in this tier
SeriesOfTier(est, tier) ==
    IF tier = 0 THEN est.AllQ ELSE IF tier = 1 THEN est.QhatAllPrior ELSE <<>>

\* line 447
ValidFlag(tier) == IF tier < 2 THEN 1 ELSE 0

\* lines 440-500: the record written.  A variable that is created and never
\* assigned reads back as its fill value; t is the list handed to the time
\* variable.  In tier 2 the dimension nt is created with size 0, which makes
\* it unlimited: writing t grows it to the length of that list, and allq and
\* q_u read back as fill values over it
Record(est, prior, tier, nr, ts) ==
    [written |-> TRUE,
     valid |-> ValidFlag(tier),
     nr |-> nr,
     nt |-> IF tier = 2 THEN Len(ts) ELSE Len(SeriesOfTier(est, tier)),
     A0hat |-> IF tier = 0 THEN est.A0hat ELSE IF tier = 1 THEN prior.meanA0 ELSE Full(nr, fillvalue),
     nahat |-> IF tier = 0 THEN est.nahat ELSE IF tier = 1 THEN prior.meanna ELSE Full(nr, fillvalue),
     x1hat |-> IF tier = 0 THEN est.x1hat ELSE IF tier = 1 THEN prior.meanx1 ELSE Full(nr, fillvalue),
     allq |-> IF tier = 2 THEN Full(Len(ts), fillvalue) ELSE SeriesOfTier(est, tier),
     q_u |-> IF tier = 0 THEN est.QhatUnc_HatAllAll
             ELSE IF tier = 1 THEN Full(Len(SeriesOfTier(est, tier)), fillvalue)
             ELSE Full(Len(ts), fillvalue),
     t |-> ts]

\* lines 428-500.  np.insert raises IndexError for a target beyond the end of
\* the series, which no ledger of the validity filter produces
WriteOutput ==
    /\ pc = "write"
    /\ InsertIndexOk(SeriesOfTier(Estimate, SetQuality), InsertTargets(iDelete, nDelete))
    /\ Estimate' = Expanded(Estimate, SetQuality, InsertTargets(iDelete, nDelete))
    /\ dataset' = Record(Estimate', P, SetQuality, Len(reachlist), overlap_ts)
    /\ pc' = "done"
    /\ UNCHANGED <<reachlist, files, allts, overlap_fs, overlap_ts, DAll, AllObs, talli,
                   Qbar, SetQuality, iDelete, nDelete, i, reads, P, calls>>

\* ------------------------------------------------- the whole run
Asc(n) == [k \in 1..n |-> k]

\* the longest time list of the pipeline family: one deleted column still
\* leaves ntmin
MaxT == ntmin + 1

\* time lists of the pipeline family: ascending lists around the threshold,
\* one with a repeated instant, one out of order
PlainSeqs == {Asc(n) : n \in (ntmin_prior - 1)..MaxT}
FirstSeqs == PlainSeqs \cup {<<1>> \o Asc(MaxT - 1), <<2, 1>> \o [k \in 1..(MaxT - 2) |-> k + 2]}

\* reach-sets of the pipeline family: 1..nRmin reaches, any of them absent
PipelineSets ==
    UNION {{rl \in [1..n -> ReachInputs(FirstSeqs)] :
               \A k \in 2..n : rl[k].exists => rl[k].ts \in PlainSeqs} : n \in 1..nRmin}

Init == \E rl \in PipelineSets : Entry(rl)

Next ==
    \/ ExtractTimes
    \/ DetermineOverlap
    \/ MissingFileKeyError
    \/ FixMasks
    \/ SetUpDomain
    \/ PreFilterCheckpoint
    \/ ConsistencyGuard
    \/ ReadReach
    \/ ValidityFilter
    \/ PostFilterCheckpoint
    \/ MainInvalid
    \/ MainProcess
    \/ ProcessFault
    \/ WriteOutput

Spec == Init /\ [][Next]_vars

NextAlign == ExtractTimes \/ DetermineOverlap \/ MissingFileKeyError \/ FixMasks \/ SetUpDomain

SpecAlign == InitAlign /\ [][NextAlign]_vars

\* ---------------------------------------- write_output on its own
\* the state at the call of write_output in tier q with ledger D and
\* filtered series F, for a set of one reach
WriteEntry(D, F, q) ==
    /\ pc = "write"
    /\ reachlist = <<[exists |-> TRUE, ts |-> Asc(Len(F) + Len(D))]>>
    /\ files = <<>>
    /\ allts = <<Asc(Len(F) + Len(D))>>
    /\ overlap_fs = <<[p \in 1..(Len(F) + Len(D)) |-> TRUE]>>
    /\ overlap_ts = Asc(Len(F) + Len(D))
    /\ DAll = [nR |-> 1, nt |-> Len(F), dt |-> <<>>]
    /\ AllObs = [h |-> <<>>, w |-> <<>>, S |-> <<>>]
    /\ talli = <<>>
    /\ Qbar = <<1>>
    /\ SetQuality = q
    /\ iDelete = D
    /\ nDelete = Len(D)
    /\ i = 2
    /\ reads = NoReads
    /\ Estimate = [AllQ |-> IF q = 0 THEN F ELSE <<>>,
                   QhatUnc_HatAllAll |-> IF q = 0 THEN F ELSE <<>>,
                   QhatAllPrior |-> IF q = 1 THEN F ELSE <<>>,
                   A0hat |-> <<1>>, nahat |-> <<1>>, x1hat |-> <<1>>]
    /\ P = [meanA0 |-> <<1>>, meanna |-> <<1>>, meanx1 |-> <<1>>]
    /\ calls = <<ProcessPath(q)>>
    /\ dataset = NoDataset

\* every ledger over a pre-filter axis of at most MaxNt columns with every
\* filtered series over the remaining ones
InitAsm ==
    \E n \in 0..MaxNt : \E Dset \in SUBSET (0..(n - 1)) :
        \E F \in [1..(n - Cardinality(Dset)) -> 1..MaxVal] : \E q \in {0, 1} :
            WriteEntry(SetToSeq(Dset), F, q)

NextAsm == WriteOutput

SpecAsm == InitAsm /\ [][NextAsm]_vars

\* ------------------------------------- the validity filter on its own
\* the state at line 293 for nr reaches that all hold the instants 1..nt, with
\* the readings in bad (reach, channel, position) undefined and every prior defined
FilterEntry(nr, nt, bad) ==
    /\ pc = "filter"
    /\ reachlist = [k \in 1..nr |-> [exists |-> TRUE, ts |-> Asc(nt)]]
    /\ files = [k \in 1..nr |->
                  [wse |-> Series(1, nt, {<<b[2], b[3]>> : b \in {x \in bad : x[1] = k}}),
                   width |-> Series(2, nt, {<<b[2], b[3]>> : b \in {x \in bad : x[1] = k}}),
                   slope2 |-> Series(3, nt, {<<b[2], b[3]>> : b \in {x \in bad : x[1] = k}}),
                   mean_q |-> 1]]
    /\ allts = [k \in 1..nr |-> Asc(nt)]
    /\ overlap_fs = [k \in 1..nr |-> [p \in 1..nt |-> TRUE]]
    /\ overlap_ts = Asc(nt)
    /\ DAll = [nR |-> nr, nt |-> nt, dt |-> <<>>]
    /\ AllObs = [h |-> [k \in 1..nr |-> files[k].wse],
                 w |-> [k \in 1..nr |-> files[k].width],
                 S |-> [k \in 1..nr |-> files[k].slope2]]
    /\ talli = Talli(Asc(nt))
    /\ Qbar = [k \in 1..nr |-> 1]
    /\ SetQuality = InitialTier(nr)
    /\ iDelete = <<>>
    /\ nDelete = 0
    /\ i = nr + 1
    /\ reads = [channel |-> 3 * nr, prior |-> nr, sword |-> nr]
    /\ Estimate = NoEstimate
    /\ P = NoPrior
    /\ calls = <<>>
    /\ dataset = NoDataset

InitFilter ==
    \E nr \in 1..MaxFilterReaches : \E nt \in ntmin_prior..MaxT :
        \E bad \in SubsetsUpTo((1..nr) \X Channels \X (1..nt), MaxFilterBad) :
            FilterEntry(nr, nt, bad)

NextFilter == ValidityFilter \/ PostFilterCheckpoint

SpecFilter == InitFilter /\ [][NextFilter]_vars

\* ------------------------------------------------------------ claims
RECURSIVE ScatterFrom(_, _, _, _)
\* columns q..n of the full-length array: the sentinel at the indices of D,
\* the values of F, in order, at the others
ScatterFrom(q, F, D, n) ==
    IF q > n THEN <<>>
    ELSE IF (q - 1) \in D THEN <<fillvalue>> \o ScatterFrom(q + 1, F, D, n)
    ELSE <<Head(F)>> \o ScatterFrom(q + 1, Tail(F), D, n)

\* C1: write_output's re-expansion of a filtered series F with ledger D is the
\* array of length len(F) + k holding the sentinel at every index of D and the
\* values of F, in order, at the other indices; it changes nothing when k = 0.
C1_RoundTrip ==
    [][pc = "write" /\ pc' = "done" =>
         LET F == SeriesOfTier(Estimate, SetQuality)
             out == SeriesOfTier(Estimate', SetQuality)
         IN  /\ out = ScatterFrom(1, F, SetOf(iDelete), Len(F) + nDelete)
             /\ Len(out) = Len(F) + nDelete
             /\ nDelete = 0 => out = F]_vars

\* C1 witness: two columns were re-inserted, one of them between retained values
C1_Witness ==
    /\ pc = "done"
    /\ nDelete = 2
    /\ Len(dataset.allq) = 4
    /\ dataset.allq[2] = fillvalue /\ dataset.allq[4] = fillvalue
    /\ dataset.allq[1] # fillvalue /\ dataset.allq[3] # fillvalue

\* C2: once assigned, the tier never improves: every step leaves SetQuality
\* equal to its previous value or worse (0 nominal < 1 degraded < 2 invalid).
C2_TierMonotone ==
    [][SetQuality # Unassigned => SetQuality' \in {0, 1, 2} /\ SetQuality' >= SetQuality]_vars

\* C2 witness: a set of nRmin reaches started nominal, an undefined prior made
\* it invalid, and the post-filter checkpoint, with ntmin columns left, kept
\* it invalid
C2_Witness ==
    /\ pc = "returned"
    /\ DAll.nR >= nRmin
    /\ Len(Qbar) = DAll.nR
    /\ \E k \in 1..Len(Qbar) : IsNaN(Qbar[k])
    /\ DAll.nt >= ntmin
    /\ SetQuality = 2

\* the candidate instants of reach k: the defined entries of its raw list
Candidates(k) == {t \in SetOf(reachlist[k].ts) : ~IsNaN(t)}

\* the instants every reach of the set has
CommonInstants == {t \in Candidates(1) : \A k \in 1..nR : t \in Candidates(k)}

StrictlyAscending(lst) == \A k \in 1..(Len(lst) - 1) : lst[k] < lst[k + 1]

\* C3: after time alignment overlap_ts is strictly ascending and nt is the
\* number of instants common to the reaches' sets of defined instants.
C3_OverlapDeduplicated ==
    pc = "check" =>
        /\ StrictlyAscending(overlap_ts)
        /\ DAll.nt = Cardinality(CommonInstants)

\* C4: position p of a reach's raw list is selected iff its instant is defined,
\* common to all reaches, and held by no earlier position of the same list.
C4_FirstOccurrenceMask ==
    pc \in {"domain", "check"} =>
        \A k \in 1..nR :
            /\ Len(overlap_fs[k]) = Len(reachlist[k].ts)
            /\ \A p \in 1..Len(reachlist[k].ts) :
                  overlap_fs[k][p] <=>
                      /\ ~IsNaN(reachlist[k].ts[p])
                      /\ reachlist[k].ts[p] \in CommonInstants
                      /\ \A e \in 1..(p - 1) : reachlist[k].ts[e] # reachlist[k].ts[p]

\* C4 witness: a reach with a repeated instant, in a set of two reaches whose
\* overlap holds both of its instants, gets the mask [true, false, true]
C4_Witness ==
    /\ pc = "check"
    /\ nR = 2
    /\ \E k \in 1..nR :
          /\ reachlist[k].ts = <<1, 1, 2>>
          /\ overlap_fs[k] = <<TRUE, FALSE, TRUE>>
    /\ SetOf(overlap_ts) = {1, 2}

\* C5: a reach whose source file is absent does not end the run.
C5_MissingInputNonFatal ==
    (\E k \in 1..nR : ~reachlist[k].exists) => pc # "aborted"

\* C6: when the record is written, process has run exactly once on the
\* Metropolis path in tier 0, exactly once on the prior-only path in tier 1 and
\* not at all in tier 2; the record's validity flag is 1 exactly in tiers 0 and
\* 1, and in tier 2 its per-reach scalars hold the fill value.
C6_DispatchByTier ==
    /\ Len(calls) <= 1
    /\ calls # <<>> => SetQuality \in {0, 1}
    /\ pc \in {"write", "done"} =>
          /\ SetQuality = 0 <=> calls = <<"metropolis">>
          /\ SetQuality = 1 <=> calls = <<"prior_only">>
          /\ SetQuality = 2 <=> calls = <<>>
    /\ pc = "done" =>
          /\ dataset.written
          /\ dataset.valid = 1 <=> SetQuality \in {0, 1}
          /\ dataset.valid = 0 <=> SetQuality = 2
          /\ SetQuality = 2 =>
                \A r \in 1..nR : /\ dataset.A0hat[r] = fillvalue
                                 /\ dataset.nahat[r] = fillvalue
                                 /\ dataset.x1hat[r] = fillvalue

\* C6 witness: a degraded set was estimated from the prior only and written as valid
C6_Witness ==
    /\ pc = "done"
    /\ SetQuality = 1
    /\ calls = <<"prior_only">>
    /\ dataset.valid = 1
    /\ files # <<>>

\* C7: once a reach's prior has been read as undefined the tier is invalid and
\* stays so, and process is never called.
C7_PriorGuard ==
    (\E k \in 1..Len(Qbar) : IsNaN(Qbar[k])) => SetQuality = 2 /\ calls = <<>>

\* C7 witness: the prior of the first of several reaches was undefined, all
\* later reads and the post-filter checkpoint passed, and the record written
\* is invalid
C7_Witness ==
    /\ pc = "done"
    /\ Len(Qbar) >= 2
    /\ IsNaN(Qbar[1])
    /\ DAll.nt >= ntmin
    /\ dataset.valid = 0

\* the aligned nt of the set, once every reach has a time list
AlignedNt == Len(AlignedTimes(TsUpTo(nR)))

\* C8: a set whose aligned nt is below ntmin_prior leaves the pre-filter
\* checkpoint invalid with an empty ledger, and no reach-channel, prior or
\* reach-length read is ever attempted for it.
C8_PreFilterShortCircuit ==
    (pc \in {"read", "filter", "post", "returned", "write", "done"}
        /\ AlignedNt < ntmin_prior) =>
        /\ pc \in {"returned", "write", "done"}
        /\ files = <<>>
        /\ SetQuality = 2
        /\ nDelete = 0 /\ iDelete = <<>>
        /\ reads = NoReads
        /\ i = 0

\* C8 witness: nRmin reaches with three common instants: invalid, nothing read
C8_Witness ==
    /\ pc = "returned"
    /\ nR = nRmin
    /\ AlignedNt = ntmin_prior - 1
    /\ SetQuality = 2
    /\ reads = NoReads

\* the list lst without its r-th entry
RemoveAt(lst, r) == [m \in 1..(Len(lst) - 1) |-> IF m < r THEN lst[m] ELSE lst[m + 1]]

\* C9 as claimed: removing a reach from a set of two or more leaves an overlap
\* contained in the overlap of the whole set, and nt does not increase.
C9_RemovalShrinks ==
    (pc = "check" /\ nR >= 2) =>
        \A r \in 1..nR :
            /\ SetOf(AlignedTimes(RemoveAt(TsUpTo(nR), r))) \subseteq SetOf(overlap_ts)
            /\ Len(AlignedTimes(RemoveAt(TsUpTo(nR), r))) <= DAll.nt

\* C9 amended: removing a reach from a set of two or more leaves an overlap
\* that contains the overlap of the whole set, and nt does not decrease.
C9_RemovalGrows ==
    (pc = "check" /\ nR >= 2) =>
        \A r \in 1..nR :
            /\ SetOf(overlap_ts) \subseteq SetOf(AlignedTimes(RemoveAt(TsUpTo(nR), r)))
            /\ DAll.nt <= Len(AlignedTimes(RemoveAt(TsUpTo(nR), r)))

\* C9 witness: removing a reach of a set of nRmin strictly enlarges a non-empty overlap
C9_Witness ==
    /\ pc = "check"
    /\ nR = nRmin
    /\ overlap_ts # <<>>
    /\ \E r \in 1..nR :
          SetOf(AlignedTimes(RemoveAt(TsUpTo(nR), r))) # SetOf(overlap_ts)

\* the aligned matrix of channel c before filtering: each reach's series
\* through its mask
Aligned(c) == [r \in 1..nR |-> MaskSelect(ChannelOf(files[r], c), overlap_fs[r])]

\* pre-filter column j (0-based) holds an undefined reading
ColumnUndefined(j) ==
    \E r \in 1..nR : \E c \in Channels : IsNaN(Aligned(c)[r][j + 1])

RECURSIVE Retained(_, _, _)
\* the entries of row from column q (1-based) on whose columns are not in D
Retained(row, q, D) ==
    IF q > Len(row) THEN <<>>
    ELSE (IF (q - 1) \in D THEN <<>> ELSE <<row[q]>>) \o Retained(row, q + 1, D)

\* C10: right after the validity filter the ledger holds exactly the pre-filter
\* columns with an undefined reading in some reach and channel, strictly
\* ascending and below the pre-filter nt; the three matrices and the time
\* vector hold the retained columns in their order; nt has dropped by the
\* ledger's size; and the filter marks no column of the filtered matrices.
C10_ValidityFilter ==
    pc = "post" =>
        LET nt0 == Len(overlap_ts)
            D == SetOf(iDelete)
        IN  /\ \A j \in 0..(nt0 - 1) : j \in D <=> ColumnUndefined(j)
            /\ D \subseteq 0..(nt0 - 1)
            /\ StrictlyAscending(iDelete)
            /\ nDelete = Len(iDelete)
            /\ DAll.nt = nt0 - nDelete
            /\ \A r \in 1..nR :
                  /\ AllObs.h[r] = Retained(Aligned(1)[r], 1, D)
                  /\ AllObs.w[r] = Retained(Aligned(2)[r], 1, D)
                  /\ AllObs.S[r] = Retained(Aligned(3)[r], 1, D)
            /\ talli = Retained(Talli(overlap_ts), 1, D)
            /\ BadColumns(AllObs, DAll.nt) = <<>>

\* C10 witness: two reaches, undefined readings in two channels and in two
\* columns that are not adjacent; the ledger holds both columns
C10_Witness ==
    /\ pc = "post"
    /\ nR = 2
    /\ iDelete = <<1, 3>>
    /\ IsNaN(files[1].width[2])
    /\ IsNaN(files[2].slope2[4])
    /\ DAll.nt = 3

\* C11: the consistency guard is never reached with its condition true: when
\* the read loop stands at the guard of a reach, every reach's mask selects
\* exactly nt positions, so line 235 is false and the guard forces no tier.
C11_GuardUnreachable ==
    pc = "read" => \A k \in 1..nR : SumBool(overlap_fs[k]) = DAll.nt

\* C12: while the aligned matrices are filled, row r, column j of the
\* elevation, width and slope matrices of every reach read so far holds the
\* readings of one raw position of reach r whose instant is overlap_ts[j].
C12_ColumnCorrespondence ==
    pc \in {"read", "filter"} =>
        \A r \in 1..Len(files) : \A j \in 1..DAll.nt :
            \E p \in 1..Len(allts[r]) :
                /\ allts[r][p] = overlap_ts[j]
                /\ AllObs.h[r][j] = files[r].wse[p]
                /\ AllObs.w[r][j] = files[r].width[p]
                /\ AllObs.S[r][j] = files[r].slope2[p]

====
